---- MODULE Spec2Model ----
(***************************************************************************)
(* A model of rcon-rs: the Source RCON packet format (packet.rs), the two  *)
(* incremental decoders (packet.rs and server.rs), the client connection   *)
(* (client.rs) and the server session (server.rs).                         *)
(*                                                                         *)
(* Bytes are the integers 0..255, a buffer is a sequence of bytes, and a   *)
(* String is the sequence of its UTF-8 bytes.                              *)
(***************************************************************************)
EXTENDS Integers, Sequences, FiniteSets, TLC

VARIABLES
    \* --- Packet::write_bytes / Packet::from_bytes applied to chosen inputs
    pPhase,      \* "packet" | "payload" (write_bytes done) | "frame" (encode done) | "done"
    pPacket,     \* the Packet handed to write_bytes (NoPacket when raw bytes are decoded)
    pRole,       \* the CodecType handed to from_bytes
    pBytes,      \* the payload bytes
    pRes,        \* the result of the decoding function applied
    pVia         \* the decoding function applied: "from_bytes" | "decode" | "server_decode"

pureVars == <<pPhase, pPacket, pRole, pBytes, pRes, pVia>>

VARIABLES
    \* --- one decoder reading a byte stream through FramedRead
    dCodec,      \* "packet" (packet.rs PacketCodec) | "server" (server.rs PacketCodec)
    dRole,       \* PacketCodec.ctype
    dItems,      \* what the peer wrote: a sequence of stream items
    dWire,       \* the bytes of dItems that have not arrived yet
    dSrc,        \* the read buffer handed to decode (src)
    dState,      \* PacketCodec.state
    dReadable,   \* bytes arrived since decode last returned None
    dOut,        \* the frames decode has emitted, in order
    dStatus      \* "run" | "err" (decode returned Err) | "panic"

codecVars == <<dCodec, dRole, dItems, dWire, dSrc, dState, dReadable, dOut, dStatus>>

VARIABLES
    \* --- the TCP connections, numbered in the order they were established
    nConns,      \* how many connections were established so far
    c2s,         \* per connection: the bytes written by the client side, in flight
    s2c,         \* per connection: the bytes written by the server side, in flight
    cliOpen,     \* per connection: the client side still holds its socket
    srvOpen,     \* per connection: the server side still holds its socket
    peerFrames,  \* per connection: the frames written by a peer outside the model,
                 \* in the order they were written
    fuse         \* FramedRead ends the stream after yielding an error (tokio-util
                 \* from 0.7 on does, earlier versions poll on)

netVars == <<nConns, c2s, s2c, cliOpen, srvOpen, peerFrames, fuse>>

VARIABLES
    \* --- client.rs: one Connection and the call running on it
    cfg,            \* max_retries, retry_delay (ms), exponential_backoff
    cPc,            \* where the running call is
    cCaller,        \* the caller of connect / login: "builder" | "cmd"
    stream,         \* Connection.stream: 0 for None, else the connection it wraps
    authenticated,  \* Connection.authenticated
    aid,            \* login: the id drawn for the Auth packet
    pk,             \* cmd: the ExecCommand packet built on entry
    retries,        \* connect: the loop variable
    attempts,       \* connect: the TcpStream::connect calls made by this call
    delays,         \* connect: the sleeps made by this call, in ms
    loginReads,     \* login: the iterations of `for _ in 0..2` completed
    cBuf,           \* the read buffer of the Framed stream
    cState,         \* PacketCodec.state of the Framed stream
    cReadable,      \* bytes arrived since decode last returned None
    cErrored,       \* the stream yielded an error and ends next (fuse)
    cRet,           \* the value the last call returned
    cGot,           \* login: the AuthResponse packet matched, if any
    cRecv,          \* the packets stream.next() has yielded on this stream
    cWrote,         \* what was written to the stream: packet, and whether a
                    \* connection was open and authenticated at that time
    cmdCalls        \* the cmd calls made so far

clientVars == <<cfg, cPc, cCaller, stream, authenticated, aid, pk, retries, attempts,
                delays, loginReads, cBuf, cState, cReadable, cErrored, cRet, cGot,
                cRecv, cWrote, cmdCalls>>

VARIABLES
    \* --- server.rs: one ServerSession per accepted connection
    sStatus,     \* "none" | "run" | "done" (start returned) | "panic"
    sAuth,       \* ServerSession.authenticated
    sBuf,        \* the read buffer of ServerSession.reader
    sState,      \* PacketCodec.state of ServerSession.reader
    sReadable,   \* bytes arrived since decode last returned None
    sErrored,    \* the reader yielded an error and ends next (fuse)
    sRecv,       \* the packets reader.next() has yielded
    sSent,       \* the packets handed to writer.send
    authLog,     \* the calls of RconImpl::authenticate: password, pid, result
    processLog   \* the calls of RconImpl::process: cmd, result

serverVars == <<sStatus, sAuth, sBuf, sState, sReadable, sErrored, sRecv, sSent,
                authLog, processLog>>

sysVars == <<netVars, clientVars, serverVars>>

vars == <<pureVars, codecVars, sysVars>>

notPure == <<codecVars, sysVars>>

notCodec == <<pureVars, sysVars>>

-----------------------------------------------------------------------------
(* Bounds of the model *)

\* longest body enumerated byte by byte
MaxBody == 2

\* the max_length the packet.rs codec is constructed with in the decoder runs
\* (PacketCodec::new(codec_type, max_length)); every frame fed is within it
MaxLength == 11

\* how far a declared length exceeds MaxLength in the oversized items
MaxOver == 2

\* PacketCodec::new_client and new_server: max_length is 4096
ProtocolMaxLength == 4096

\* the TCP connections a run establishes at most
MaxConns == 2

\* the largest max_retries a Builder is given
MaxRetries == 3

\* the cmd calls made on a Connection at most
MaxCmds == 2

\* the frames the peers outside the model write at most, over all connections
MaxPeerFrames == 2

-----------------------------------------------------------------------------
(* packet.rs: PacketType, CodecType, Packet *)

PacketTypes == {"Auth", "AuthResponse", "ExecCommand", "ResponseValue"}

CodecTypes == {"Client", "Server"}

\* Option::None of PacketType::from_i32
NoType == "None"

\* the mutant decodes type code 2 without looking at the codec role
from_i32_ignoring_role(i, codec) ==
    CASE i = 0 -> "ResponseValue"
      [] i = 2 -> "ExecCommand"
      [] i = 3 -> "Auth"
      [] OTHER -> NoType

from_i32(i, codec) ==
    CASE i = 0 -> "ResponseValue"
      [] i = 2 /\ codec = "Client" -> "AuthResponse"
      [] i = 2 -> "ExecCommand"
      [] i = 3 -> "Auth"
      [] OTHER -> NoType

bytes(ptype) ==
    CASE ptype = "ResponseValue" -> 0
      [] ptype = "AuthResponse" -> 2
      [] ptype = "ExecCommand" -> 2
      [] ptype = "Auth" -> 3

Packet(ptype, id, body) == [ptype |-> ptype, id |-> id, body |-> body]

-----------------------------------------------------------------------------
(* bytes::BufMut::put_i32_le and bytes::Buf::get_i32_le: a signed 32-bit    *)
(* integer as four little-endian bytes in two's complement.  \div and %    *)
(* round towards minus infinity, so the bytes of a negative integer are    *)
(* those of its two's complement.                                          *)

I32Min == -2147483647 - 1

I32Max == 2147483647

put_i32_le(i) ==
    << i % 256, (i \div 256) % 256, (i \div 65536) % 256, (i \div 16777216) % 256 >>

get_i32_le(b) ==
    b[1] + 256 * b[2] + 65536 * b[3]
      + 16777216 * (IF b[4] >= 128 THEN b[4] - 256 ELSE b[4])

\* `x as usize` of an i32 on a 64-bit target: a negative x becomes 2^64 + x,
\* which is larger than the length of any buffer.  Lengths are compared with
\* buffer lengths only, so every such value is represented by UsizeHuge.
UsizeHuge == 2147483647

as_usize(x) == IF x < 0 THEN UsizeHuge ELSE x

\* the buffer after its first n bytes were split off (n <= Len(b))
Drop(b, n) == SubSeq(b, n + 1, Len(b))

Take(b, n) == SubSeq(b, 1, n)

-----------------------------------------------------------------------------
(* String: std::io::Read::read_to_string fails on bytes that are not UTF-8 *)

IsCont(c) == c >= 128 /\ c <= 191

RECURSIVE Utf8From(_, _)
Utf8From(b, i) ==
    IF i > Len(b) THEN TRUE
    ELSE LET c == b[i]
             n == Len(b) - i + 1
         IN  CASE c < 128 -> Utf8From(b, i + 1)
               [] c >= 194 /\ c <= 223 ->
                    n >= 2 /\ IsCont(b[i + 1]) /\ Utf8From(b, i + 2)
               [] c >= 224 /\ c <= 239 ->
                    /\ n >= 3
                    /\ IsCont(b[i + 1]) /\ IsCont(b[i + 2])
                    /\ (c = 224 => b[i + 1] >= 160)
                    /\ (c = 237 => b[i + 1] <= 159)
                    /\ Utf8From(b, i + 3)
               [] c >= 240 /\ c <= 244 ->
                    /\ n >= 4
                    /\ IsCont(b[i + 1]) /\ IsCont(b[i + 2]) /\ IsCont(b[i + 3])
                    /\ (c = 240 => b[i + 1] >= 144)
                    /\ (c = 244 => b[i + 1] <= 143)
                    /\ Utf8From(b, i + 4)
               [] OTHER -> FALSE

IsUtf8(b) == (\A i \in 1..Len(b) : b[i] < 128) \/ Utf8From(b, 1)

-----------------------------------------------------------------------------
(* packet.rs: Packet::from_bytes, Packet::encoded_len, Packet::write_bytes *)

Ok(p) == [tag |-> "Ok", packet |-> p]

Err(e) == [tag |-> "Err", err |-> e]

\* a panic of the running task (expect, unwrap, split_to out of bounds)
Panic == [tag |-> "Panic"]

\* the mutant keeps one of the two terminator bytes in the body
from_bytes_keeping_terminator(b, codec) ==
    IF ~(Len(b) >= 10 /\ Len(b) <= 4096) THEN Err("InvalidLength")
    ELSE LET msg_id == get_i32_le(SubSeq(b, 1, 4))
             ptype == from_i32(get_i32_le(SubSeq(b, 5, 8)), codec)
             body == SubSeq(b, 9, Len(b) - 1)
         IN  IF ptype = NoType THEN Err("UndefinedType")
             ELSE IF ~IsUtf8(body) THEN Panic
             ELSE Ok(Packet(ptype, msg_id, body))

from_bytes(b, codec) ==
    IF ~(Len(b) >= 10 /\ Len(b) <= 4096) THEN Err("InvalidLength")
    ELSE LET msg_id == get_i32_le(SubSeq(b, 1, 4))
             ptype == from_i32(get_i32_le(SubSeq(b, 5, 8)), codec)
             \* rem = b.remaining() - 2 bytes are read into the body
             body == SubSeq(b, 9, Len(b) - 2)
         IN  IF ptype = NoType THEN Err("UndefinedType")
             ELSE IF ~IsUtf8(body) THEN Panic
             ELSE Ok(Packet(ptype, msg_id, body))

\* the mutant leaves the two terminator bytes out of the length
encoded_len_without_terminator(p) == Len(p.body) + 8

encoded_len(p) == Len(p.body) + 10

write_bytes(p) ==
    put_i32_le(p.id) \o put_i32_le(bytes(p.ptype)) \o p.body \o <<0, 0>>

-----------------------------------------------------------------------------
(* Inputs *)

\* the ids enumerated: the sentinel -1, 0, the ids of the spec's scenarios,
\* and the two ends of i32
Ids == {-1, 0, 7, 42, I32Min, I32Max}

\* the bytes bodies are made of: NUL, 'a', and the two bytes of U+00E9
BodyBytes == {0, 97, 195, 169}

RECURSIVE SeqsUpTo(_, _)
SeqsUpTo(S, n) ==
    IF n = 0 THEN {<<>>}
    ELSE LET shorter == SeqsUpTo(S, n - 1)
         IN  shorter \cup {Append(s, x) : s \in {t \in shorter : Len(t) = n - 1}, x \in S}

\* a body of n bytes 'a'
LongBody(n) == [i \in 1..n |-> 97]

\* Strings: the valid UTF-8 byte sequences of at most MaxBody bytes, and the
\* longest body the protocol allows (4096 - 10 bytes)
Bodies == {b \in SeqsUpTo(BodyBytes, MaxBody) : IsUtf8(b)} \cup {LongBody(4086)}

Packets == {Packet(t, i, b) : t \in PacketTypes, i \in Ids, b \in Bodies}

NoPacket == [ptype |-> NoType, id |-> 0, body |-> <<>>]

NoRes == [tag |-> "None"]

-----------------------------------------------------------------------------
(* packet.rs: DecodeState, impl Encoder and impl Decoder for PacketCodec *)

\* DecodeState::Head (Head is the head of a sequence in Sequences)
DecodeHead == [tag |-> "Head", n |-> 0]

Data(n) == [tag |-> "Data", n |-> n]

Ignore(n) == [tag |-> "Ignore", n |-> n]

\* Encoder::encode: the length prefix, then the payload
encode(item) == put_i32_le(encoded_len(item)) \o write_bytes(item)

\* what one decode call leaves behind and returns: res is NoRes for Ok(None),
\* Ok(p) for Ok(Some(p)), Err(e), or Panic
DecodeRet(state, src, res) == [state |-> state, src |-> src, res |-> res]

\* src.split_to(packet_len) and Packet::from_bytes on the bytes split off;
\* split_to panics when packet_len exceeds the buffer
SplitAndParse(state, src, packet_len, ctype) ==
    IF packet_len > Len(src) THEN DecodeRet(state, src, Panic)
    ELSE DecodeRet(state, Drop(src, packet_len), from_bytes(Take(src, packet_len), ctype))

\* the mutant reads the length prefix from a buffer of 4 bytes
decode_reading_4_bytes(state, src, ctype, max_length) ==
    IF src = <<>> THEN DecodeRet(state, src, NoRes)
    ELSE CASE state.tag = "Head" ->
                IF Len(src) < 4 THEN DecodeRet(state, src, NoRes)
                ELSE LET packet_len == as_usize(get_i32_le(Take(src, 4)))
                         rest == Drop(src, 4)
                     IN  IF Len(rest) > max_length
                         THEN IF Len(rest) >= packet_len
                              THEN DecodeRet(state, Drop(rest, packet_len), NoRes)
                              ELSE DecodeRet(Ignore(Len(rest)), <<>>, NoRes)
                         ELSE IF Len(rest) < packet_len
                              THEN DecodeRet(Data(packet_len), rest, NoRes)
                              ELSE SplitAndParse(state, rest, packet_len, ctype)
           [] state.tag = "Data" ->
                IF state.n < Len(src) THEN DecodeRet(state, src, NoRes)
                ELSE SplitAndParse(state, src, state.n, ctype)
           [] state.tag = "Ignore" ->
                IF Len(src) >= state.n
                THEN DecodeRet(DecodeHead, Drop(src, state.n), NoRes)
                ELSE DecodeRet(Ignore(state.n - Len(src)), <<>>, NoRes)

decode(state, src, ctype, max_length) ==
    IF src = <<>> THEN DecodeRet(state, src, NoRes)
    ELSE CASE state.tag = "Head" ->
                IF Len(src) <= 4 THEN DecodeRet(state, src, NoRes)
                ELSE LET packet_len == as_usize(get_i32_le(Take(src, 4)))
                         rest == Drop(src, 4)
                     IN  IF Len(rest) > max_length
                         THEN IF Len(rest) >= packet_len
                              THEN DecodeRet(state, Drop(rest, packet_len), NoRes)
                              ELSE DecodeRet(Ignore(Len(rest)), <<>>, NoRes)
                         ELSE IF Len(rest) < packet_len
                              THEN DecodeRet(Data(packet_len), rest, NoRes)
                              ELSE SplitAndParse(state, rest, packet_len, ctype)
           [] state.tag = "Data" ->
                IF state.n < Len(src) THEN DecodeRet(state, src, NoRes)
                ELSE SplitAndParse(state, src, state.n, ctype)
           [] state.tag = "Ignore" ->
                IF Len(src) >= state.n
                THEN DecodeRet(DecodeHead, Drop(src, state.n), NoRes)
                ELSE DecodeRet(Ignore(state.n - Len(src)), <<>>, NoRes)

-----------------------------------------------------------------------------
(* server.rs: impl Decoder for PacketCodec (the server session's own codec) *)

\* Packet::from_bytes(data, false): the session matches the frames it reads
\* against PacketType::ExecCommand, the Server reading of type code 2
server_ctype == "Server"

\* from_bytes(..).expect(..): an Err panics
Expect(r) == IF r.tag = "Err" THEN Panic ELSE r

server_decode(state, src) ==
    CASE state.tag = "Head" ->
            IF Len(src) <= 4 THEN DecodeRet(state, src, NoRes)
            ELSE LET len == as_usize(get_i32_le(Take(src, 4)))
                     rest == Drop(src, 4)
                 IN  IF Len(rest) <= len
                     THEN IF len > Len(rest) THEN DecodeRet(state, rest, Panic)
                          ELSE DecodeRet(state, Drop(rest, len),
                                         Expect(from_bytes(Take(rest, len), server_ctype)))
                     ELSE DecodeRet(state, rest, Panic)
      [] OTHER -> DecodeRet(state, src, Panic)

-----------------------------------------------------------------------------
(* The parts of the state a specification does not use stay as constructed *)

IdlePure ==
    /\ pPhase = "idle"
    /\ pPacket = NoPacket
    /\ pRole = "Client"
    /\ pBytes = <<>>
    /\ pRes = NoRes
    /\ pVia = "none"

IdleCodec ==
    /\ dCodec = "packet"
    /\ dRole = "Client"
    /\ dItems = <<>>
    /\ dWire = <<>>
    /\ dSrc = <<>>
    /\ dState = DecodeHead
    /\ dReadable = FALSE
    /\ dOut = <<>>
    /\ dStatus = "idle"

Conns == 1..MaxConns

\* a call's return value: tag "Ok" or "Err", the error kind, and the text of Ok
Ret(op, tag, err, body) == [op |-> op, tag |-> tag, err |-> err, body |-> body]

NoRet == Ret("none", "none", "", <<>>)

\* Builder defaults: max_retries 3, retry_delay 1000 ms, exponential_backoff false
Cfg(max_retries, retry_delay, exponential_backoff) ==
    [max_retries |-> max_retries, retry_delay |-> retry_delay,
     exponential_backoff |-> exponential_backoff]

IdleNet ==
    /\ nConns = 0
    /\ c2s = [k \in Conns |-> <<>>]
    /\ s2c = [k \in Conns |-> <<>>]
    /\ cliOpen = [k \in Conns |-> FALSE]
    /\ srvOpen = [k \in Conns |-> FALSE]
    /\ peerFrames = [k \in Conns |-> <<>>]

IdleClient ==
    /\ cPc = "none"
    /\ cCaller = "none"
    /\ stream = 0
    /\ authenticated = FALSE
    /\ aid = 0
    /\ pk = NoPacket
    /\ retries = 0
    /\ attempts = 0
    /\ delays = <<>>
    /\ loginReads = 0
    /\ cBuf = <<>>
    /\ cState = DecodeHead
    /\ cReadable = FALSE
    /\ cErrored = FALSE
    /\ cRet = NoRet
    /\ cGot = NoPacket
    /\ cRecv = <<>>
    /\ cWrote = <<>>
    /\ cmdCalls = 0

IdleServer ==
    /\ sStatus = [k \in Conns |-> "none"]
    /\ sAuth = [k \in Conns |-> FALSE]
    /\ sBuf = [k \in Conns |-> <<>>]
    /\ sState = [k \in Conns |-> DecodeHead]
    /\ sReadable = [k \in Conns |-> FALSE]
    /\ sErrored = [k \in Conns |-> FALSE]
    /\ sRecv = [k \in Conns |-> <<>>]
    /\ sSent = [k \in Conns |-> <<>>]
    /\ authLog = [k \in Conns |-> <<>>]
    /\ processLog = [k \in Conns |-> <<>>]

IdleSys ==
    /\ IdleNet /\ fuse = FALSE
    /\ IdleClient /\ cfg = Cfg(3, 1000, FALSE)
    /\ IdleServer

-----------------------------------------------------------------------------
(* SpecPure: write_bytes and from_bytes applied to the inputs *)

InitPure ==
    /\ pPhase = "packet"
    /\ pPacket \in Packets
    /\ pRole \in CodecTypes
    /\ pBytes = <<>>
    /\ pRes = NoRes
    /\ pVia = "none"
    /\ IdleCodec
    /\ IdleSys

\* Packet::write_bytes into an empty buffer
PWriteBytes ==
    /\ pPhase = "packet"
    /\ pBytes' = write_bytes(pPacket)
    /\ pPhase' = "payload"
    /\ UNCHANGED <<pPacket, pRole, pRes, pVia>>
    /\ UNCHANGED notPure

\* Encoder::encode into an empty buffer
PEncode ==
    /\ pPhase = "packet"
    /\ pBytes' = encode(pPacket)
    /\ pPhase' = "frame"
    /\ UNCHANGED <<pPacket, pRole, pRes, pVia>>
    /\ UNCHANGED notPure

\* Packet::from_bytes on the payload
PFromBytes ==
    /\ pPhase = "payload"
    /\ pRes' = from_bytes(pBytes, pRole)
    /\ pVia' = "from_bytes"
    /\ pPhase' = "done"
    /\ UNCHANGED <<pPacket, pRole, pBytes>>
    /\ UNCHANGED notPure

\* packet.rs decode, as constructed by new_client / new_server, on a buffer
\* holding the whole frame
PDecode ==
    /\ pPhase = "frame"
    /\ pRes' = decode(DecodeHead, pBytes, pRole, ProtocolMaxLength).res
    /\ pVia' = "decode"
    /\ pPhase' = "done"
    /\ UNCHANGED <<pPacket, pRole, pBytes>>
    /\ UNCHANGED notPure

\* server.rs decode on a buffer holding the whole frame
PServerDecode ==
    /\ pPhase = "frame"
    /\ pRes' = server_decode(DecodeHead, pBytes).res
    /\ pVia' = "server_decode"
    /\ pPhase' = "done"
    /\ UNCHANGED <<pPacket, pRole, pBytes>>
    /\ UNCHANGED notPure

NextPure == PWriteBytes \/ PEncode \/ PFromBytes \/ PDecode \/ PServerDecode

SpecPure == InitPure /\ [][NextPure]_vars

\* the role under which decoding a frame of type ptype gives ptype back
Unambiguous(ptype, role) ==
    /\ ptype = "AuthResponse" => role = "Client"
    /\ ptype = "ExecCommand" => role = "Server"

\* C6: round trip.  from_bytes applied to write_bytes(f) returns f, for every
\* frame f with a body of at most 4086 bytes (Packets holds no longer body),
\* under a role that makes the type code of f unambiguous.
C6_RoundTrip ==
    (pPhase = "done" /\ pVia = "from_bytes" /\ Unambiguous(pPacket.ptype, pRole))
        => pRes = Ok(pPacket)

\* a frame with the longest body, a negative id and the ambiguous type code
\* has gone through write_bytes and from_bytes
C6_Witness ==
    /\ pPhase = "done" /\ pVia = "from_bytes"
    /\ pPacket = Packet("AuthResponse", I32Min, LongBody(4086))
    /\ pRole = "Client"
    /\ Len(pBytes) = 4096
    /\ pRes.tag = "Ok"

\* C7: type code 2.  The same bytes with type code 2 decode to AuthResponse
\* under the Client role and to ExecCommand under the Server role, whatever
\* the id and the body, and the decoder of the server session reads them as
\* ExecCommand.
C7_TypeCodeDisambiguation ==
    (pPhase = "done" /\ get_i32_le(SubSeq(write_bytes(pPacket), 5, 8)) = 2)
        => /\ pRes.tag = "Ok"
           /\ pRes.packet.id = pPacket.id
           /\ pRes.packet.body = pPacket.body
           /\ pRes.packet.ptype =
                 IF pVia = "server_decode" THEN "ExecCommand"
                 ELSE IF pRole = "Client" THEN "AuthResponse"
                 ELSE "ExecCommand"

\* the bytes of an ExecCommand frame were decoded under the Client role, and
\* the bytes of an AuthResponse frame by the server session's decoder
C7_Witness ==
    /\ pPhase = "done"
    /\ \/ /\ pVia = "from_bytes" /\ pRole = "Client"
          /\ pPacket.ptype = "ExecCommand" /\ pRes.tag = "Ok"
          /\ pRes.packet.ptype = "AuthResponse"
       \/ /\ pVia = "server_decode"
          /\ pPacket.ptype = "AuthResponse" /\ pRes.tag = "Ok"
          /\ pRes.packet.ptype = "ExecCommand"

-----------------------------------------------------------------------------
(* SpecRaw: Packet::from_bytes applied to payloads as a peer may send them  *)

\* the type codes in a payload: the three defined ones and their neighbours
RawTypeCodes == {-1, 0, 1, 2, 3, 4}

\* the bytes of a payload's body: 'a', the two bytes of U+00E9, and 255, which
\* is in no UTF-8 text
RawBodyBytes == {97, 195, 169, 255}

\* the two bytes that end a payload: zero as an Encoder writes them, or not
RawTerminators == {<<0, 0>>, <<0, 1>>, <<255, 255>>}

RawHeader(id, code) == put_i32_le(id) \o put_i32_le(code)

\* whole payloads with short bodies; payloads cut short of 10 bytes; payloads
\* of 4096 and of 4097 bytes
RawPayloads ==
    {RawHeader(id, code) \o body \o term :
        id \in {-1, 7}, code \in RawTypeCodes,
        body \in SeqsUpTo(RawBodyBytes, MaxBody), term \in RawTerminators}
      \cup {Take(RawHeader(7, code) \o <<0>>, n) : code \in RawTypeCodes, n \in 0..9}
      \cup {RawHeader(7, code) \o LongBody(n) \o term :
                code \in RawTypeCodes, n \in {4086, 4087}, term \in RawTerminators}

InitRaw ==
    /\ pPhase = "raw"
    /\ pPacket = NoPacket
    /\ pRole \in CodecTypes
    /\ pBytes \in RawPayloads
    /\ pRes = NoRes
    /\ pVia = "none"
    /\ IdleCodec
    /\ IdleSys

\* Packet::from_bytes on the payload as it came
PFromRaw ==
    /\ pPhase = "raw"
    /\ pRes' = from_bytes(pBytes, pRole)
    /\ pVia' = "from_bytes"
    /\ pPhase' = "done"
    /\ UNCHANGED <<pPacket, pRole, pBytes>>
    /\ UNCHANGED notPure

NextRaw == PFromRaw

SpecRaw == InitRaw /\ [][NextRaw]_vars

\* C18: payload decode errors.  from_bytes returns the length error exactly
\* when the payload is shorter than 10 or longer than 4096 bytes; for a
\* payload within these bounds it returns the undefined-type error exactly
\* when the type code is not 0, 2 or 3; in every other case it returns the
\* frame with the id, the type and the body of the payload; and the result is
\* the one for the same payload ending in two zero bytes.
C18_PayloadDecodeErrors ==
    pPhase = "done" =>
        LET n == Len(pBytes)
            inBounds == n >= 10 /\ n <= 4096
            code == get_i32_le(SubSeq(pBytes, 5, 8))
        IN  /\ pRes = Err("InvalidLength") <=> ~inBounds
            /\ inBounds => (pRes = Err("UndefinedType") <=> code \notin {0, 2, 3})
            /\ (inBounds /\ code \in {0, 2, 3}) =>
                  pRes = Ok(Packet(from_i32(code, pRole), get_i32_le(SubSeq(pBytes, 1, 4)),
                                   SubSeq(pBytes, 9, n - 2)))
            /\ inBounds => pRes = from_bytes(Take(pBytes, n - 2) \o <<0, 0>>, pRole)

\* the four bytes of each type code on the wire
TypeCodeBytes(ptype) ==
    CASE ptype = "Auth" -> <<3, 0, 0, 0>>
      [] ptype = "ExecCommand" -> <<2, 0, 0, 0>>
      [] ptype = "AuthResponse" -> <<2, 0, 0, 0>>
      [] ptype = "ResponseValue" -> <<0, 0, 0, 0>>

\* b is the payload of p: the id, the type code, the body, two zero bytes
LaidOut(b, p) ==
    /\ Len(b) = Len(p.body) + 10
    /\ \A i \in 1..Len(b) : b[i] \in 0..255
    /\ get_i32_le(SubSeq(b, 1, 4)) = p.id
    /\ SubSeq(b, 5, 8) = TypeCodeBytes(p.ptype)
    /\ SubSeq(b, 9, Len(b) - 2) = p.body
    /\ b[Len(b) - 1] = 0 /\ b[Len(b)] = 0

\* C15: encoding layout and length.  The payload write_bytes produces for a
\* frame is its id in 4 little-endian bytes, its type code in 4 little-endian
\* bytes (Auth 3, ExecCommand 2, AuthResponse 2, ResponseValue 0), the bytes of
\* its body and two zero bytes, body length + 10 bytes in all; what encode
\* produces is that payload after 4 little-endian bytes holding its length.
C15_EncodingLayout ==
    /\ pPhase = "payload" => LaidOut(pBytes, pPacket)
    /\ pPhase = "frame" =>
          /\ Len(pBytes) = 4 + Len(pPacket.body) + 10
          /\ \A i \in 1..4 : pBytes[i] \in 0..255
          /\ get_i32_le(SubSeq(pBytes, 1, 4)) = Len(pPacket.body) + 10
          /\ LaidOut(Drop(pBytes, 4), pPacket)

\* the frame with the longest body and id -1 was encoded: the prefix holds
\* 4096 and the id is four bytes 255
C15_Witness ==
    /\ pPhase = "frame"
    /\ pPacket = Packet("Auth", -1, LongBody(4086))
    /\ SubSeq(pBytes, 1, 12) = <<0, 16, 0, 0, 255, 255, 255, 255, 3, 0, 0, 0>>
    /\ Len(pBytes) = 4100

-----------------------------------------------------------------------------
(* SpecCodec: a decoder behind FramedRead, fed a byte stream in chunks      *)

\* the frames written to the stream: within max_length, and beyond it
InBoundPackets ==
    {Packet(t, 42, LongBody(n)) : t \in PacketTypes, n \in 0..(MaxLength - 10)}

OversizedPackets ==
    {Packet(t, 42, LongBody(n)) :
        t \in PacketTypes, n \in (MaxLength - 9)..(MaxLength - 10 + MaxOver)}

\* one frame; an oversized frame and the frame after it; two frames
Streams ==
    {<<p>> : p \in InBoundPackets}
      \cup {<<o, p>> : o \in OversizedPackets, p \in InBoundPackets}
      \cup {<<p, q>> : p \in InBoundPackets, q \in InBoundPackets}

RECURSIVE EncodeAll(_)
EncodeAll(items) ==
    IF items = <<>> THEN <<>> ELSE encode(items[1]) \o EncodeAll(Tail(items))

InitCodec ==
    /\ IdlePure
    /\ IdleSys
    /\ \/ dCodec = "packet" /\ dRole \in CodecTypes
       \/ dCodec = "server" /\ dRole = server_ctype
    /\ dItems \in Streams
    /\ dWire = EncodeAll(dItems)
    /\ dSrc = <<>>
    /\ dState = DecodeHead
    /\ dReadable = FALSE
    /\ dOut = <<>>
    /\ dStatus = "run"

\* FramedRead reads n more bytes of the stream into the buffer
DFill ==
    /\ dStatus = "run"
    /\ ~dReadable
    /\ \E n \in 1..Len(dWire) :
          /\ dSrc' = dSrc \o Take(dWire, n)
          /\ dWire' = Drop(dWire, n)
    /\ dReadable' = TRUE
    /\ UNCHANGED <<dCodec, dRole, dItems, dState, dOut, dStatus>>
    /\ UNCHANGED notCodec

\* the decode call of the codec in use
CallDecode(codec, state, src, ctype) ==
    IF codec = "packet" THEN decode(state, src, ctype, MaxLength)
    ELSE server_decode(state, src)

\* FramedRead calls decode on the buffer: a frame is handed on and decode is
\* called again, None waits for more bytes
DDecode ==
    /\ dStatus = "run"
    /\ dReadable
    /\ LET r == CallDecode(dCodec, dState, dSrc, dRole)
       IN  /\ dState' = r.state
           /\ dSrc' = r.src
           /\ dReadable' = (r.res.tag = "Ok")
           /\ dOut' = IF r.res.tag = "Ok" THEN Append(dOut, r.res.packet) ELSE dOut
           /\ dStatus' = CASE r.res.tag = "Err" -> "err"
                            [] r.res.tag = "Panic" -> "panic"
                            [] OTHER -> "run"
    /\ UNCHANGED <<dCodec, dRole, dItems, dWire>>
    /\ UNCHANGED notCodec

NextCodec == DFill \/ DDecode

SpecCodec == InitCodec /\ [][NextCodec]_vars

\* every byte has arrived and decode has returned None for what is buffered
Drained == dWire = <<>> /\ ~dReadable

\* src.split_to(n) on a buffer of `of` bytes; n = 0 stands for no split
Split(n, of) == [n |-> n, of |-> of]

\* the split_to a decode call makes on entry with this state and buffer
SplitRequest(codec, state, src, max_length) ==
    IF codec = "packet"
    THEN IF src = <<>> THEN Split(0, 0)
         ELSE CASE state.tag = "Head" ->
                     IF Len(src) <= 4 THEN Split(0, 0)
                     ELSE LET packet_len == as_usize(get_i32_le(Take(src, 4)))
                              rest == Len(src) - 4
                          IN  IF rest > max_length
                              THEN IF rest >= packet_len THEN Split(packet_len, rest)
                                   ELSE Split(0, 0)
                              ELSE IF rest < packet_len THEN Split(0, 0)
                                   ELSE Split(packet_len, rest)
                [] state.tag = "Data" ->
                     IF state.n < Len(src) THEN Split(0, 0) ELSE Split(state.n, Len(src))
                [] state.tag = "Ignore" ->
                     IF Len(src) >= state.n THEN Split(state.n, Len(src)) ELSE Split(0, 0)
    ELSE IF state.tag = "Head" /\ Len(src) > 4
         THEN LET len == as_usize(get_i32_le(Take(src, 4)))
                  rest == Len(src) - 4
              IN  IF rest <= len THEN Split(len, rest) ELSE Split(0, 0)
         ELSE Split(0, 0)

\* C21: no split beyond the buffer.  Whenever decode of either codec is about
\* to be called, in any state and on any buffer content the chunks of the
\* stream produce, the split_to it makes takes at most the bytes the buffer
\* holds, and no decode call has panicked.
C21_SplitWithinBuffer ==
    /\ dStatus # "panic"
    /\ (dStatus = "run" /\ dReadable) =>
          LET r == SplitRequest(dCodec, dState, dSrc, MaxLength) IN r.n <= r.of

\* every frame of the stream is within max_length and decodes to itself under
\* the role of the codec
ValidStream(items, role) ==
    \A i \in DOMAIN items :
        encoded_len(items[i]) <= MaxLength /\ Unambiguous(items[i].ptype, role)

\* C22: multi-frame framing.  For the packet.rs codec and a stream of valid
\* frames within max_length, cut into chunks in any way: no call fails, the
\* frames emitted so far are the first frames of the stream in order, once
\* every byte has arrived and been decoded every frame was emitted, and after
\* each call that emits a frame the decode state is Head.
C22_MultiFrameFraming ==
    /\ [](((dCodec = "packet" /\ dStatus # "idle" /\ ValidStream(dItems, dRole))
            => /\ dStatus = "run"
               /\ Len(dOut) <= Len(dItems) /\ dOut = SubSeq(dItems, 1, Len(dOut))
               /\ Drained => dOut = dItems))
    /\ [][(dCodec = "packet" /\ ValidStream(dItems, dRole) /\ Len(dOut') > Len(dOut))
             => dState' = DecodeHead]_vars

\* C19: short buffer in Head.  A decode call of either codec in the Head state
\* on a buffer of 4 or fewer bytes emits nothing, fails in no way, and leaves
\* the state and the buffer as they were.
C19_ShortHeadUnchanged ==
    [][(dStatus = "run" /\ dReadable /\ dState = DecodeHead /\ Len(dSrc) <= 4)
           => /\ dOut' = dOut
              /\ dStatus' = "run"
              /\ dState' = DecodeHead
              /\ dSrc' = dSrc]_vars

\* decode of packet.rs was called in Head on a buffer of exactly 4 bytes and
\* returned None
C19_Witness ==
    /\ dStatus = "run" /\ dCodec = "packet"
    /\ dState = DecodeHead /\ Len(dSrc) = 4
    /\ ~dReadable
    /\ dOut = <<>>

\* C4: partial-frame buffering.  A stream holding one in-bounds frame, cut
\* into chunks in any way with a decode call after each chunk: no call fails,
\* no frame is emitted while bytes are still to arrive, and once the last
\* byte has arrived and been decoded exactly the original frame was emitted.
C4_PartialFrameBuffering ==
    (dStatus # "idle" /\ Len(dItems) = 1 /\ Unambiguous(dItems[1].ptype, dRole))
        => /\ dStatus = "run"
           /\ dWire # <<>> => dOut = <<>>
           /\ Drained => dOut = dItems

\* C5: oversized-frame recovery.  A frame whose declared length exceeds
\* max_length, followed by an in-bounds frame, in any chunking: no call fails,
\* nothing but the in-bounds frame is ever emitted, and once everything has
\* arrived the decoder is back in Head with an empty buffer and has emitted
\* the in-bounds frame.
C5_OversizedFrameRecovery ==
    (/\ dStatus # "idle" /\ dCodec = "packet" /\ Len(dItems) = 2
     /\ encoded_len(dItems[1]) > MaxLength
     /\ Unambiguous(dItems[2].ptype, dRole))
        => /\ dStatus = "run"
           /\ dOut \in {<<>>, <<dItems[2]>>}
           /\ Drained => dOut = <<dItems[2]>> /\ dState = DecodeHead /\ dSrc = <<>>

-----------------------------------------------------------------------------
(* tokio_util FramedRead / Framed: Stream::poll_next over a Decoder         *)

PollOut(out, packet, err, state, buf, readable, errored) ==
    [out |-> out, packet |-> packet, err |-> err, state |-> state, buf |-> buf,
     readable |-> readable, errored |-> errored]

\* One step of next() on a buffer that r is the decode return for: "frame"
\* (Some(Ok)), "err" (Some(Err)), "eof" (None), "panic", or "pending" when
\* decode wants more bytes.  At end of stream decode_eof calls decode and
\* fails with an io error if bytes remain that decode leaves alone.
FramedNext(r, state, buf, readable, errored, fused) ==
    IF errored THEN PollOut("eof", NoPacket, "", state, buf, FALSE, FALSE)
    ELSE CASE r.res.tag = "Ok" ->
                PollOut("frame", r.res.packet, "", r.state, r.src, readable, FALSE)
           [] r.res.tag = "Err" ->
                PollOut("err", NoPacket, r.res.err, r.state, r.src, readable, fused)
           [] r.res.tag = "Panic" ->
                PollOut("panic", NoPacket, "", r.state, r.src, readable, FALSE)
           [] OTHER ->
                IF readable
                THEN PollOut("pending", NoPacket, "", r.state, r.src, FALSE, FALSE)
                ELSE IF r.src = <<>>
                THEN PollOut("eof", NoPacket, "", r.state, r.src, FALSE, FALSE)
                ELSE PollOut("err", NoPacket, "Io", r.state, r.src, FALSE, fused)

\* what a write to connection k can do: the bytes go out; once the other side
\* has closed they are lost, or the write fails
SendOutcomes(open) == IF open THEN {"sent"} ELSE {"lost", "error"}

-----------------------------------------------------------------------------
(* client.rs: Builder::connect, Connection::connect, login, cmd *)

\* Connection.password
Password == <<112>>

\* thread_rng().gen::<i32>() in login and in cmd: the ids drawn
AuthIds == {-1, 7, 42}

CmdIds == {7}

\* the commands given to cmd
CmdBodies == {<<97>>}

RECURSIVE Pow(_, _)
Pow(b, e) == IF e = 0 THEN 1 ELSE b * Pow(b, e - 1)

\* the Duration connect sleeps for, in ms
SleepMs(c, n) ==
    IF c.exponential_backoff THEN Pow(c.retry_delay, n) ELSE c.retry_delay

\* PacketError -> client::Error (impl From<PacketError> for Error)
FromPacketError(e) == IF e = "Io" THEN "Io" ELSE "PacketError"

\* dropping the stream the Connection holds closes its socket
CloseStream(open, k) == IF k = 0 THEN open ELSE [open EXCEPT ![k] = FALSE]

\* the record of a write to the stream: how is "login", "cmd" (sent on the
\* stream cmd found) or "reconnect" (sent after cmd called connect and login)
Wrote(p, k, out, how) ==
    [packet |-> p, conn |-> k, open |-> srvOpen[k], auth |-> authenticated, out |-> out,
     how |-> how]

\* the stream is at its end: the peer closed and every byte was read
ClientAtEof == stream # 0 /\ s2c[stream] = <<>> /\ ~srvOpen[stream]

ClientPoll ==
    FramedNext(decode(cState, cBuf, "Client", ProtocolMaxLength),
               cState, cBuf, cReadable, cErrored, fuse)

ClientCanPoll == stream # 0 /\ (cReadable \/ cErrored \/ ClientAtEof)

\* Builder::connect up to the first await of Connection::connect
BuilderConnect ==
    /\ cPc = "start"
    /\ \/ \* lookup_host fails or resolves to nothing
          /\ cPc' = "dropped"
          /\ cRet' = Ret("builder", "Err", "Io", <<>>)
          /\ UNCHANGED <<cCaller, retries, attempts, delays>>
       \/ /\ cPc' = "connect"
          /\ cCaller' = "builder"
          /\ retries' = 1
          /\ attempts' = 0
          /\ delays' = <<>>
          /\ UNCHANGED cRet
    /\ UNCHANGED <<cfg, stream, authenticated, aid, pk, loginReads, cBuf, cState,
                   cReadable, cErrored, cGot, cRecv, cWrote, cmdCalls>>
    /\ UNCHANGED <<netVars, serverVars, pureVars, codecVars>>

\* Connection::connect: one iteration of `for retries in 1..self.max_retries+1`
ConnectAttempt ==
    /\ cPc = "connect"
    /\ retries <= cfg.max_retries
    /\ attempts' = attempts + 1
    /\ \/ \* TcpStream::connect fails: continue
          /\ retries' = retries + 1
          /\ UNCHANGED <<cPc, stream, delays, cBuf, cState, cReadable, cErrored, cRet,
                         cRecv, netVars>>
       \/ \* it succeeds: the stream is installed, then the sleep, then Ok(())
          /\ nConns < MaxConns
          /\ nConns' = nConns + 1
          /\ stream' = nConns + 1
          /\ cliOpen' = [CloseStream(cliOpen, stream) EXCEPT ![nConns + 1] = TRUE]
          /\ srvOpen' = [srvOpen EXCEPT ![nConns + 1] = TRUE]
          /\ cBuf' = <<>>
          /\ cState' = DecodeHead
          /\ cReadable' = FALSE
          /\ cErrored' = FALSE
          /\ cRecv' = <<>>
          /\ delays' = Append(delays, SleepMs(cfg, retries))
          /\ cPc' = "connect_ret"
          /\ cRet' = Ret("connect", "Ok", "", <<>>)
          /\ UNCHANGED <<retries, c2s, s2c, peerFrames, fuse>>
    /\ UNCHANGED <<cfg, cCaller, authenticated, aid, pk, loginReads, cGot, cWrote,
                   cmdCalls>>
    /\ UNCHANGED <<serverVars, pureVars, codecVars>>

\* Connection::connect: the loop is over, Err(NotFound)
ConnectExhausted ==
    /\ cPc = "connect"
    /\ retries > cfg.max_retries
    /\ cPc' = "connect_ret"
    /\ cRet' = Ret("connect", "Err", "Io", <<>>)
    /\ UNCHANGED <<cfg, cCaller, stream, authenticated, aid, pk, retries, attempts,
                   delays, loginReads, cBuf, cState, cReadable, cErrored, cGot, cRecv,
                   cWrote, cmdCalls>>
    /\ UNCHANGED <<netVars, serverVars, pureVars, codecVars>>

\* `self.connect().await?` in Builder::connect and in cmd, and on Ok the call
\* of login up to its first await: authenticated = false, the id is drawn and
\* the Auth packet is sent
ConnectReturn ==
    /\ cPc = "connect_ret"
    /\ retries' = 0
    /\ attempts' = 0
    /\ delays' = <<>>
    /\ IF cRet.tag = "Err"
       THEN /\ cPc' = IF cCaller = "builder" THEN "dropped" ELSE "idle"
            /\ cRet' = Ret(cCaller, "Err", cRet.err, <<>>)
            /\ cliOpen' = IF cCaller = "builder" THEN CloseStream(cliOpen, stream)
                          ELSE cliOpen
            /\ UNCHANGED <<authenticated, aid, loginReads, cGot, cWrote, c2s>>
       ELSE /\ authenticated' = FALSE
            /\ cGot' = NoPacket
            /\ \E i \in AuthIds, out \in SendOutcomes(srvOpen[stream]) :
                 /\ aid' = i
                 /\ cWrote' = Append(cWrote, Wrote(Packet("Auth", i, Password), stream, out, "login"))
                 /\ c2s' = IF out = "sent"
                           THEN [c2s EXCEPT ![stream] = @ \o encode(Packet("Auth", i, Password))]
                           ELSE c2s
                 /\ IF out = "error"
                    THEN /\ cPc' = "login_ret"
                         /\ cRet' = Ret("login", "Err", "Io", <<>>)
                    ELSE /\ cPc' = "login_wait"
                         /\ UNCHANGED cRet
            /\ loginReads' = 0
            /\ UNCHANGED cliOpen
    /\ UNCHANGED <<cfg, cCaller, stream, pk, cBuf, cState, cReadable, cErrored, cRecv,
                   cmdCalls>>
    /\ UNCHANGED <<nConns, s2c, srvOpen, peerFrames, fuse>>
    /\ UNCHANGED <<serverVars, pureVars, codecVars>>

\* Framed reads n more bytes from the socket while a call awaits stream.next()
ClientFill ==
    /\ cPc \in {"login_wait", "cmd_wait"}
    /\ ~cReadable /\ ~cErrored
    /\ \E n \in 1..Len(s2c[stream]) :
          /\ cBuf' = cBuf \o Take(s2c[stream], n)
          /\ s2c' = [s2c EXCEPT ![stream] = Drop(@, n)]
    /\ cReadable' = TRUE
    /\ UNCHANGED <<cfg, cPc, cCaller, stream, authenticated, aid, pk, retries, attempts,
                   delays, loginReads, cState, cErrored, cRet, cGot, cRecv, cWrote,
                   cmdCalls>>
    /\ UNCHANGED <<nConns, c2s, cliOpen, srvOpen, peerFrames, fuse>>
    /\ UNCHANGED <<serverVars, pureVars, codecVars>>

\* the mutant gives up after one read
LoginOutcome_one_read(q, i, n) ==
    CASE q.out = "frame" /\ q.packet.ptype = "AuthResponse" ->
            IF q.packet.id = i THEN Ret("login", "Ok", "", <<>>)
            ELSE Ret("login", "Err", "IncorrectPassword", <<>>)
      [] q.out = "eof" -> Ret("login", "Err", "ConnectionAborted", <<>>)
      [] q.out = "err" \/ (q.out = "frame" /\ q.packet.ptype # "AuthResponse") ->
            Ret("login", "Err", "InvalidResponse", <<>>)
      [] OTHER -> NoRet

\* the mutant takes any AuthResponse for a successful login
LoginOutcome_any_id(q, i, n) ==
    CASE q.out = "frame" /\ q.packet.ptype = "AuthResponse" -> Ret("login", "Ok", "", <<>>)
      [] q.out = "eof" -> Ret("login", "Err", "ConnectionAborted", <<>>)
      [] /\ q.out = "err" \/ (q.out = "frame" /\ q.packet.ptype # "AuthResponse")
         /\ n + 1 >= 2 ->
            Ret("login", "Err", "InvalidResponse", <<>>)
      [] OTHER -> NoRet

\* the arm of login's match that ends the call, if the poll result does
LoginOutcome(q, i, n) ==
    CASE q.out = "frame" /\ q.packet.ptype = "AuthResponse" ->
            IF q.packet.id = i THEN Ret("login", "Ok", "", <<>>)
            ELSE Ret("login", "Err", "IncorrectPassword", <<>>)
      [] q.out = "eof" -> Ret("login", "Err", "ConnectionAborted", <<>>)
      [] /\ q.out = "err" \/ (q.out = "frame" /\ q.packet.ptype # "AuthResponse")
         /\ n + 1 >= 2 ->
            Ret("login", "Err", "InvalidResponse", <<>>)
      [] OTHER -> NoRet

\* login: one stream.next() of `for _ in 0..2`
LoginNext ==
    /\ cPc = "login_wait"
    /\ ClientCanPoll
    /\ LET q == ClientPoll
           ret == LoginOutcome(q, aid, loginReads)
       IN  /\ cBuf' = q.buf
           /\ cState' = q.state
           /\ cReadable' = q.readable
           /\ cErrored' = q.errored
           /\ cRecv' = IF q.out = "frame" THEN Append(cRecv, q.packet) ELSE cRecv
           /\ IF q.out = "panic"
              THEN /\ cPc' = "panic"
                   /\ UNCHANGED <<authenticated, loginReads, cRet, cGot>>
              ELSE IF q.out = "pending"
              THEN UNCHANGED <<cPc, authenticated, loginReads, cRet, cGot>>
              ELSE /\ loginReads' = IF q.out \in {"frame", "err"} THEN loginReads + 1
                                    ELSE loginReads
                   /\ cGot' = IF q.out = "frame" /\ q.packet.ptype = "AuthResponse"
                              THEN q.packet ELSE cGot
                   /\ authenticated' = (ret.tag = "Ok")
                   /\ IF ret = NoRet
                      THEN UNCHANGED <<cPc, cRet>>
                      ELSE cPc' = "login_ret" /\ cRet' = ret
    /\ UNCHANGED <<cfg, cCaller, stream, aid, pk, retries, attempts, delays, cWrote,
                   cmdCalls>>
    /\ UNCHANGED <<netVars, serverVars, pureVars, codecVars>>

\* stream.send(pk) of cmd and what it leaves: the wait for the reply, or Err
CmdSendTo(k, p, out, how) ==
    /\ cWrote' = Append(cWrote, Wrote(p, k, out, how))
    /\ c2s' = IF out = "sent" THEN [c2s EXCEPT ![k] = @ \o encode(p)] ELSE c2s
    /\ IF out = "error"
       THEN cPc' = "idle" /\ cRet' = Ret("cmd", "Err", "Io", <<>>)
       ELSE cPc' = "cmd_wait" /\ UNCHANGED cRet

\* the mutant hands out the Connection whatever login returned
LoginReturn_ignoring_error ==
    /\ cPc = "login_ret"
    /\ loginReads' = 0
    /\ IF cCaller = "builder"
       THEN /\ cPc' = "idle"
            /\ cRet' = Ret("builder", "Ok", "", <<>>)
            /\ UNCHANGED <<cWrote, c2s, cliOpen>>
       ELSE /\ \E out \in SendOutcomes(srvOpen[stream]) : CmdSendTo(stream, pk, out, "reconnect")
            /\ UNCHANGED cliOpen
    /\ UNCHANGED <<cfg, cCaller, stream, authenticated, aid, pk, retries, attempts,
                   delays, cBuf, cState, cReadable, cErrored, cGot, cRecv, cmdCalls>>
    /\ UNCHANGED <<nConns, s2c, srvOpen, peerFrames, fuse>>
    /\ UNCHANGED <<serverVars, pureVars, codecVars>>

\* `self.login().await?` in Builder::connect (then Ok(c)) and in cmd (then
\* the command is sent)
LoginReturn ==
    /\ cPc = "login_ret"
    /\ loginReads' = 0
    /\ IF cRet.tag = "Err"
       THEN /\ cPc' = IF cCaller = "builder" THEN "dropped" ELSE "idle"
            /\ cRet' = Ret(cCaller, "Err", cRet.err, <<>>)
            /\ cliOpen' = IF cCaller = "builder" THEN CloseStream(cliOpen, stream)
                          ELSE cliOpen
            /\ UNCHANGED <<cWrote, c2s>>
       ELSE IF cCaller = "builder"
       THEN /\ cPc' = "idle"
            /\ cRet' = Ret("builder", "Ok", "", <<>>)
            /\ UNCHANGED <<cWrote, c2s, cliOpen>>
       ELSE /\ \E out \in SendOutcomes(srvOpen[stream]) : CmdSendTo(stream, pk, out, "reconnect")
            /\ UNCHANGED cliOpen
    /\ UNCHANGED <<cfg, cCaller, stream, authenticated, aid, pk, retries, attempts,
                   delays, cBuf, cState, cReadable, cErrored, cGot, cRecv, cmdCalls>>
    /\ UNCHANGED <<nConns, s2c, srvOpen, peerFrames, fuse>>
    /\ UNCHANGED <<serverVars, pureVars, codecVars>>

\* Connection::cmd up to its first await: the packet is built; with a stream
\* it is sent at once, without one connect is called first
CmdCall ==
    /\ cPc = "idle"
    /\ cmdCalls < MaxCmds
    /\ cmdCalls' = cmdCalls + 1
    /\ \E body \in CmdBodies, i \in CmdIds :
         LET p == Packet("ExecCommand", i, body)
         IN  /\ pk' = p
             /\ IF stream # 0
                THEN /\ \E out \in SendOutcomes(srvOpen[stream]) : CmdSendTo(stream, p, out, "cmd")
                     /\ UNCHANGED <<cCaller, retries, attempts, delays>>
                ELSE /\ cPc' = "connect"
                     /\ cCaller' = "cmd"
                     /\ retries' = 1
                     /\ attempts' = 0
                     /\ delays' = <<>>
                     /\ UNCHANGED <<cRet, cWrote, c2s>>
    /\ UNCHANGED <<cfg, stream, authenticated, aid, loginReads, cBuf, cState, cReadable,
                   cErrored, cGot, cRecv>>
    /\ UNCHANGED <<nConns, s2c, cliOpen, srvOpen, peerFrames, fuse>>
    /\ UNCHANGED <<serverVars, pureVars, codecVars>>

\* cmd: stream.next() and the return of the reply's body
CmdNext ==
    /\ cPc = "cmd_wait"
    /\ ClientCanPoll
    /\ LET q == ClientPoll
       IN  /\ cBuf' = q.buf
           /\ cState' = q.state
           /\ cReadable' = q.readable
           /\ cErrored' = q.errored
           /\ cRecv' = IF q.out = "frame" THEN Append(cRecv, q.packet) ELSE cRecv
           /\ CASE q.out = "panic" -> cPc' = "panic" /\ UNCHANGED cRet
                [] q.out = "pending" -> UNCHANGED <<cPc, cRet>>
                [] q.out = "frame" ->
                     cPc' = "idle" /\ cRet' = Ret("cmd", "Ok", "", q.packet.body)
                [] q.out = "err" ->
                     cPc' = "idle" /\ cRet' = Ret("cmd", "Err", FromPacketError(q.err), <<>>)
                [] q.out = "eof" ->
                     cPc' = "idle" /\ cRet' = Ret("cmd", "Err", "ConnectionAborted", <<>>)
    /\ UNCHANGED <<cfg, cCaller, stream, authenticated, aid, pk, retries, attempts,
                   delays, loginReads, cGot, cWrote, cmdCalls>>
    /\ UNCHANGED <<netVars, serverVars, pureVars, codecVars>>

\* the Connection is dropped by its owner: the socket closes
ClientDrop ==
    /\ cPc = "idle"
    /\ cPc' = "dropped"
    /\ cliOpen' = CloseStream(cliOpen, stream)
    /\ UNCHANGED <<cfg, cCaller, stream, authenticated, aid, pk, retries, attempts,
                   delays, loginReads, cBuf, cState, cReadable, cErrored, cRet, cGot,
                   cRecv, cWrote, cmdCalls>>
    /\ UNCHANGED <<nConns, c2s, s2c, srvOpen, peerFrames, fuse>>
    /\ UNCHANGED <<serverVars, pureVars, codecVars>>

ClientNext ==
    \/ BuilderConnect \/ ConnectAttempt \/ ConnectExhausted \/ ConnectReturn
    \/ ClientFill \/ LoginNext \/ LoginReturn \/ CmdCall \/ CmdNext \/ ClientDrop

\* a Connection about to be built with the Builder's defaults
InitClient ==
    /\ cPc = "start"
    /\ cCaller = "none"
    /\ stream = 0
    /\ authenticated = FALSE
    /\ aid = 0
    /\ pk = NoPacket
    /\ retries = 0
    /\ attempts = 0
    /\ delays = <<>>
    /\ loginReads = 0
    /\ cBuf = <<>>
    /\ cState = DecodeHead
    /\ cReadable = FALSE
    /\ cErrored = FALSE
    /\ cRet = NoRet
    /\ cGot = NoPacket
    /\ cRecv = <<>>
    /\ cWrote = <<>>
    /\ cmdCalls = 0

-----------------------------------------------------------------------------
(* SpecConnect: Builder::connect as far as Connection::connect, for every   *)
(* configuration                                                           *)

Cfgs == {Cfg(m, d, e) : m \in 0..MaxRetries, d \in {2, 100}, e \in BOOLEAN}

InitConnect ==
    /\ IdlePure /\ IdleCodec /\ IdleNet /\ IdleServer
    /\ fuse \in BOOLEAN
    /\ cfg \in Cfgs
    /\ InitClient

NextConnect == BuilderConnect \/ ConnectAttempt \/ ConnectExhausted

SpecConnect == InitConnect /\ [][NextConnect]_vars

\* C9: connect retry with backoff.  When connect() returns after every attempt
\* failed, it made exactly max_retries attempts and slept after each of them:
\* retry_delay every time without exponential_backoff, retry_delay to the power
\* of the attempt number (from 1) with it; the return value is the error.
C9_ConnectRetryBackoff ==
    (cPc = "connect_ret" /\ cRet.tag = "Err")
        => /\ attempts = cfg.max_retries
           /\ delays = [n \in 1..cfg.max_retries |-> SleepMs(cfg, n)]

-----------------------------------------------------------------------------
(* server.rs: RconServer::run, ServerSession::start, impl Encoder           *)

\* Packet::len, which the server's Encoder calls: the payload length
len(item) == Len(item.body) + 10

\* server.rs Encoder::encode
server_encode(item) == put_i32_le(len(item)) \o write_bytes(item)

\* RconImpl::process: the texts a handler returns, or an error
HandlerTexts == {<<111>>}

ProcessResults == {[tag |-> "Ok", text |-> t] : t \in HandlerTexts}
                    \cup {[tag |-> "Err", text |-> <<>>]}

\* the mutant runs commands whether or not the session is authenticated
IsExecArm_without_auth(s, is_authenticated) == s.ptype = "ExecCommand"

\* the guard of the first arm of the match in start
IsExecArm(s, is_authenticated) == s.ptype = "ExecCommand" /\ is_authenticated

\* the mutant authenticates again in a session that is authenticated
IsAuthArm_in_any_state(s, is_authenticated) == s.ptype = "Auth"

\* the guard of its second arm
IsAuthArm(s, is_authenticated) == s.ptype = "Auth" /\ ~is_authenticated

\* the id of the reply to an Auth packet
AuthReplyId(s, ok) == IF ok THEN s.id ELSE -1

SessionAtEof(k) == c2s[k] = <<>> /\ ~cliOpen[k]

SessionPoll(k) ==
    FramedNext(server_decode(sState[k], sBuf[k]),
               sState[k], sBuf[k], sReadable[k], sErrored[k], fuse)

\* RconServer::run: accept, T::new, from_tcp_stream and the spawn of start
Accept(k) ==
    /\ k <= nConns
    /\ sStatus[k] = "none"
    /\ \A j \in 1..(k - 1) : sStatus[j] # "none"
    /\ sStatus' = [sStatus EXCEPT ![k] = "run"]
    /\ sAuth' = [sAuth EXCEPT ![k] = FALSE]
    /\ sState' = [sState EXCEPT ![k] = DecodeHead]
    /\ UNCHANGED <<sBuf, sReadable, sErrored, sRecv, sSent, authLog, processLog>>
    /\ UNCHANGED <<netVars, clientVars, pureVars, codecVars>>

\* the reader of session k reads n more bytes from its socket
SessionFill(k) ==
    /\ sStatus[k] = "run"
    /\ ~sReadable[k] /\ ~sErrored[k]
    /\ \E n \in 1..Len(c2s[k]) :
          /\ sBuf' = [sBuf EXCEPT ![k] = @ \o Take(c2s[k], n)]
          /\ c2s' = [c2s EXCEPT ![k] = Drop(@, n)]
    /\ sReadable' = [sReadable EXCEPT ![k] = TRUE]
    /\ UNCHANGED <<sStatus, sAuth, sState, sErrored, sRecv, sSent, authLog, processLog>>
    /\ UNCHANGED <<nConns, s2c, cliOpen, srvOpen, peerFrames, fuse>>
    /\ UNCHANGED <<clientVars, pureVars, codecVars>>

\* writer.send(p), its result ignored
SessionSend(k, p) ==
    /\ sSent' = [sSent EXCEPT ![k] = Append(@, p)]
    /\ s2c' = IF cliOpen[k] THEN [s2c EXCEPT ![k] = @ \o server_encode(p)] ELSE s2c

\* the mutant takes a panic in one session's task for the end of the process:
\* every session that runs ends with it
SessionEnd_whole_process(k, how) ==
    /\ sStatus' = [j \in Conns |->
                     IF j = k \/ (how = "panic" /\ sStatus[j] = "run") THEN how
                     ELSE sStatus[j]]
    /\ srvOpen' = [srvOpen EXCEPT ![k] = FALSE]
    /\ c2s' = [c2s EXCEPT ![k] = <<>>]

\* the mutant does not return at the end of the stream
SessionEnd_never_returns(k, how) ==
    IF how = "done" THEN UNCHANGED <<sStatus, srvOpen, c2s>>
    ELSE /\ sStatus' = [sStatus EXCEPT ![k] = how]
         /\ srvOpen' = [srvOpen EXCEPT ![k] = FALSE]
         /\ c2s' = [c2s EXCEPT ![k] = <<>>]

\* the session ends: start returned or its task panicked, and the session
\* with both halves of the socket is dropped; what was on its way to the
\* socket is discarded
SessionEnd(k, how) ==
    /\ sStatus' = [sStatus EXCEPT ![k] = how]
    /\ srvOpen' = [srvOpen EXCEPT ![k] = FALSE]
    /\ c2s' = [c2s EXCEPT ![k] = <<>>]

\* ServerSession::start: one iteration of the loop, from reader.next() to the
\* end of the arm of the match it takes
SessionNext(k) ==
    /\ sStatus[k] = "run"
    /\ sReadable[k] \/ sErrored[k] \/ SessionAtEof(k)
    /\ LET q == SessionPoll(k)
           s == q.packet
           \* the reader is dropped with the session
           gone == q.out \in {"eof", "panic"}
       IN  /\ sBuf' = [sBuf EXCEPT ![k] = IF gone THEN <<>> ELSE q.buf]
           /\ sState' = [sState EXCEPT ![k] = IF gone THEN DecodeHead ELSE q.state]
           /\ sReadable' = [sReadable EXCEPT ![k] = ~gone /\ q.readable]
           /\ sErrored' = [sErrored EXCEPT ![k] = ~gone /\ q.errored]
           /\ sRecv' = IF q.out = "frame" THEN [sRecv EXCEPT ![k] = Append(@, s)]
                       ELSE sRecv
           /\ CASE q.out = "frame" /\ IsExecArm(s, sAuth[k]) ->
                     \E r \in ProcessResults :
                        /\ processLog' = [processLog EXCEPT ![k] =
                                             Append(@, [cmd |-> s.body, res |-> r])]
                        /\ IF r.tag = "Err"
                           THEN \* r.unwrap() panics
                                /\ SessionEnd(k, "panic")
                                /\ UNCHANGED <<sSent, s2c>>
                           ELSE /\ SessionSend(k, Packet("ResponseValue", s.id, r.text))
                                /\ UNCHANGED <<sStatus, srvOpen, c2s>>
                        /\ UNCHANGED <<sAuth, authLog>>
                [] q.out = "frame" /\ ~IsExecArm(s, sAuth[k]) /\ IsAuthArm(s, sAuth[k]) ->
                     \E ok \in BOOLEAN :
                        /\ authLog' = [authLog EXCEPT ![k] =
                                          Append(@, [password |-> s.body, pid |-> s.id,
                                                     ok |-> ok])]
                        /\ sAuth' = [sAuth EXCEPT ![k] = ok]
                        /\ SessionSend(k, Packet("ResponseValue", AuthReplyId(s, ok), <<>>))
                        /\ UNCHANGED <<sStatus, srvOpen, c2s, processLog>>
                [] q.out = "eof" ->
                     /\ SessionEnd(k, "done")
                     /\ UNCHANGED <<sAuth, sSent, s2c, authLog, processLog>>
                [] q.out = "panic" ->
                     /\ SessionEnd(k, "panic")
                     /\ UNCHANGED <<sAuth, sSent, s2c, authLog, processLog>>
                [] OTHER ->
                     \* the arms that only log, and decode wanting more bytes
                     UNCHANGED <<sStatus, srvOpen, c2s, sAuth, sSent, s2c, authLog,
                                 processLog>>
    /\ UNCHANGED <<nConns, cliOpen, peerFrames, fuse>>
    /\ UNCHANGED <<clientVars, pureVars, codecVars>>

ServerNext == \E k \in Conns : Accept(k) \/ SessionFill(k) \/ SessionNext(k)

-----------------------------------------------------------------------------
(* Peers outside the model: any program at the other end of a connection    *)

\* what a peer of a server session writes
RequestFrames ==
    {Packet("Auth", 42, Password), Packet("ExecCommand", 7, <<97>>),
     Packet("ResponseValue", 0, <<>>)}

\* what a peer of a client writes
ReplyFrames ==
    {Packet("AuthResponse", i, <<>>) : i \in AuthIds}
      \cup {Packet("ResponseValue", i, <<>>) : i \in {-1, 42}}
      \cup {Packet("ResponseValue", 7, <<111>>)}

\* frames no Encoder produces: one with type code 1, which from_i32 knows
\* under neither role, and one of 8 bytes, without the two terminator bytes
MalformedFrames ==
    {[ptype |-> "Undefined", id |-> 7, body |-> <<>>],
     [ptype |-> "Short", id |-> 7, body |-> <<>>]}

\* the bytes a peer puts on the wire for a frame
WireBytes(f) ==
    CASE f.ptype = "Undefined" ->
            put_i32_le(10) \o put_i32_le(f.id) \o put_i32_le(1) \o <<0, 0>>
      [] f.ptype = "Short" -> put_i32_le(8) \o put_i32_le(f.id) \o put_i32_le(0)
      [] OTHER -> encode(f)

RECURSIVE SumTo(_, _)
SumTo(f, n) == IF n = 0 THEN 0 ELSE Len(f[n]) + SumTo(f, n - 1)

\* the frames peers have written so far
PeerFramesWritten == SumTo(peerFrames, MaxConns)

\* a peer connects to the listening server
ClientPeerConnect ==
    /\ nConns < MaxConns
    /\ nConns' = nConns + 1
    /\ cliOpen' = [cliOpen EXCEPT ![nConns + 1] = TRUE]
    /\ srvOpen' = [srvOpen EXCEPT ![nConns + 1] = TRUE]
    /\ UNCHANGED <<c2s, s2c, peerFrames, fuse>>
    /\ UNCHANGED <<clientVars, serverVars, pureVars, codecVars>>

ClientPeerWrite(k) ==
    /\ k <= nConns /\ cliOpen[k]
    /\ PeerFramesWritten < MaxPeerFrames
    /\ \E f \in RequestFrames \cup MalformedFrames :
          /\ peerFrames' = [peerFrames EXCEPT ![k] = Append(@, f)]
          /\ c2s' = IF srvOpen[k] THEN [c2s EXCEPT ![k] = @ \o WireBytes(f)] ELSE c2s
    /\ UNCHANGED <<nConns, s2c, cliOpen, srvOpen, fuse>>
    /\ UNCHANGED <<clientVars, serverVars, pureVars, codecVars>>

ClientPeerClose(k) ==
    /\ k <= nConns /\ cliOpen[k]
    /\ cliOpen' = [cliOpen EXCEPT ![k] = FALSE]
    /\ UNCHANGED <<nConns, c2s, s2c, srvOpen, peerFrames, fuse>>
    /\ UNCHANGED <<clientVars, serverVars, pureVars, codecVars>>

ServerPeerWrite(k) ==
    /\ k <= nConns /\ srvOpen[k]
    /\ PeerFramesWritten < MaxPeerFrames
    /\ \E f \in ReplyFrames \cup MalformedFrames :
          /\ peerFrames' = [peerFrames EXCEPT ![k] = Append(@, f)]
          /\ s2c' = [s2c EXCEPT ![k] = @ \o WireBytes(f)]
    /\ UNCHANGED <<nConns, c2s, cliOpen, srvOpen, fuse>>
    /\ UNCHANGED <<clientVars, serverVars, pureVars, codecVars>>

ServerPeerClose(k) ==
    /\ k <= nConns /\ srvOpen[k]
    /\ srvOpen' = [srvOpen EXCEPT ![k] = FALSE]
    /\ UNCHANGED <<nConns, c2s, s2c, cliOpen, peerFrames, fuse>>
    /\ UNCHANGED <<clientVars, serverVars, pureVars, codecVars>>

-----------------------------------------------------------------------------
(* SpecClient: a Connection whose peers are any programs                    *)

InitClientSys ==
    /\ IdlePure /\ IdleCodec /\ IdleNet /\ IdleServer
    /\ fuse \in BOOLEAN
    /\ cfg = Cfg(3, 1000, FALSE)
    /\ InitClient

NextClient ==
    \/ ClientNext
    \/ \E k \in Conns : ServerPeerWrite(k) \/ ServerPeerClose(k)

SpecClient == InitClientSys /\ [][NextClient]_vars

\* C8: auth id echoing.  When login returns after it received an AuthResponse
\* frame: it returns Ok with authenticated = true if the frame's id is the id
\* of the Auth request, and otherwise it returns the authentication failure,
\* authenticated is false and the stream is still there and open.
C8_AuthIdEcho ==
    (cPc = "login_ret" /\ cGot # NoPacket)
        => /\ cGot.id = aid =>
                 cRet = Ret("login", "Ok", "", <<>>) /\ authenticated
           /\ cGot.id # aid =>
                 /\ cRet = Ret("login", "Err", "IncorrectPassword", <<>>)
                 /\ ~authenticated
                 /\ stream # 0 /\ cliOpen[stream]

\* login has returned the authentication failure for an AuthResponse whose id
\* is not the id it sent
C8_Witness ==
    /\ cPc = "login_ret"
    /\ cGot.ptype = "AuthResponse" /\ cGot.id = -1 /\ aid = 42
    /\ cRet.err = "IncorrectPassword"
    /\ ~authenticated

\* C16: bounded wait in login.  While login waits for the reply it is not
\* authenticated and has made fewer than 2 reads.  A read that yields a frame
\* other than an AuthResponse, or an error, is counted and changes nothing
\* else: after the first, login goes on waiting; after the second, it returns
\* the invalid-response error.  A read that finds the stream at its end makes
\* login return the connection-aborted error.  authenticated stays false.
C16_LoginBoundedWait ==
    [][cPc = "login_wait" =>
          /\ ~authenticated /\ loginReads < 2
          /\ (loginReads' # loginReads \/ cPc' # cPc) =>
                LET q == ClientPoll
                IN  CASE q.out = "frame" /\ q.packet.ptype = "AuthResponse" -> TRUE
                      [] q.out \in {"frame", "err"} ->
                           /\ ~authenticated'
                           /\ loginReads' = loginReads + 1
                           /\ IF loginReads' < 2
                              THEN cPc' = "login_wait" /\ cRet' = cRet
                              ELSE /\ cPc' = "login_ret"
                                   /\ cRet' = Ret("login", "Err", "InvalidResponse", <<>>)
                      [] q.out = "eof" ->
                           /\ ~authenticated'
                           /\ cPc' = "login_ret"
                           /\ cRet' = Ret("login", "Err", "ConnectionAborted", <<>>)
                      [] OTHER -> TRUE]_vars

\* login has returned the invalid-response error after two reads: one gave a
\* ResponseValue frame, the other a decode error
C16_Witness ==
    /\ cPc = "login_ret"
    /\ cRet.err = "InvalidResponse"
    /\ loginReads = 2
    /\ Len(cRecv) = 1 /\ cRecv[1].ptype = "ResponseValue"
    /\ ~authenticated

HasConnection == cPc \in {"idle", "cmd_wait"}

\* C23: commands only when authenticated.  Every ExecCommand the client wrote
\* was written while authenticated was true, and whenever the caller holds a
\* Connection (between cmd calls or inside one) authenticated is true: the
\* last login on it succeeded.
C23_ExecOnlyAuthenticated ==
    /\ \A i \in DOMAIN cWrote :
          cWrote[i].packet.ptype = "ExecCommand" => cWrote[i].auth
    /\ HasConnection => authenticated /\ stream # 0

\* a first cmd failed because the peer had closed the stream, and a second
\* cmd has written its ExecCommand, authenticated still being true
C23_Witness ==
    /\ Len(cWrote) = 3
    /\ cWrote[1].packet.ptype = "Auth"
    /\ cWrote[2].packet.ptype = "ExecCommand" /\ cWrote[2].auth
    /\ cWrote[3].packet.ptype = "ExecCommand" /\ cWrote[3].auth /\ ~cWrote[3].open
    /\ cmdCalls = 2

\* the last cmd call failed on the transport: the stream was at its end
\* (connection-aborted) or the write or the read gave an io error
LostConnection ==
    /\ cPc = "idle"
    /\ cRet.op = "cmd" /\ cRet.tag = "Err"
    /\ cRet.err \in {"ConnectionAborted", "Io"}

\* C24: recovery after a lost connection.  After a cmd call failed because the
\* peer closed the stream or on a transport error, the Connection holds no
\* stream, and the next cmd call writes nothing to the old stream: it calls
\* connect (and then login) first.
C24_RecoverAfterLostConnection ==
    [][LostConnection =>
          /\ stream = 0
          /\ cmdCalls' # cmdCalls => (cPc' = "connect" /\ cWrote' = cWrote)]_vars

-----------------------------------------------------------------------------
(* SpecServer: the server and its sessions, with any programs as peers      *)

InitServerSys ==
    /\ IdlePure /\ IdleCodec /\ IdleNet /\ IdleServer /\ IdleClient
    /\ fuse \in BOOLEAN
    /\ cfg = Cfg(3, 1000, FALSE)

NextServer ==
    \/ ServerNext
    \/ ClientPeerConnect
    \/ \E k \in Conns : ClientPeerWrite(k) \/ ClientPeerClose(k)

SpecServer == InitServerSys /\ [][NextServer]_vars

\* the last packet session k received
LastRecv(recv, k) == recv[k][Len(recv[k])]

\* C1: an ExecCommand in an unauthenticated session is dropped.  In the step
\* in which a session that is not authenticated receives an ExecCommand frame,
\* process is not called, nothing is sent or written to the peer, the session
\* stays unauthenticated, and it goes on running with its socket open.
C1_UnauthenticatedExecDropped ==
    [][\A k \in Conns :
          (/\ ~sAuth[k]
           /\ Len(sRecv'[k]) = Len(sRecv[k]) + 1
           /\ LastRecv(sRecv', k).ptype = "ExecCommand")
              => /\ processLog'[k] = processLog[k]
                 /\ sSent'[k] = sSent[k]
                 /\ s2c'[k] = s2c[k]
                 /\ ~sAuth'[k]
                 /\ sStatus'[k] = "run"
                 /\ srvOpen'[k]]_vars

\* a session that never saw an Auth packet received an ExecCommand, and after
\* it a further frame
C1_Witness ==
    \E k \in Conns :
        /\ Len(sRecv[k]) = 2
        /\ sRecv[k][1].ptype = "ExecCommand"
        /\ authLog[k] = <<>> /\ processLog[k] = <<>> /\ sSent[k] = <<>>
        /\ ~sAuth[k]
        /\ sStatus[k] = "run"

\* session k receives a frame of type ptype in this step
Receives(k, ptype) ==
    /\ Len(sRecv'[k]) = Len(sRecv[k]) + 1
    /\ LastRecv(sRecv', k).ptype = ptype

\* log is old with exactly one entry added
OneMore(log, old) == Len(log) = Len(old) + 1 /\ SubSeq(log, 1, Len(old)) = old

\* C11: an ExecCommand in an authenticated session.  In the step in which a
\* session that is authenticated receives an ExecCommand frame, process is
\* called exactly once, with the body of the frame, and exactly one packet is
\* sent: a ResponseValue with the id of the frame and the text process
\* returned.
C11_AuthenticatedExecAnswered ==
    [][\A k \in Conns :
          (sAuth[k] /\ Receives(k, "ExecCommand"))
              => LET s == LastRecv(sRecv', k)
                     call == processLog'[k][Len(processLog'[k])]
                 IN  /\ OneMore(processLog'[k], processLog[k])
                     /\ call.cmd = s.body
                     /\ OneMore(sSent'[k], sSent[k])
                     /\ sSent'[k][Len(sSent'[k])] =
                           Packet("ResponseValue", s.id, call.res.text)]_vars

IsPrefix(a, b) == Len(a) <= Len(b) /\ a = SubSeq(b, 1, Len(a))

\* no call of process in session k returned an error
NoHandlerError(k) == \A i \in DOMAIN processLog[k] : processLog[k][i].res.tag = "Ok"

\* the replies start sends for the frames recv, taken one at a time in order,
\* in a session whose authenticated flag is auth and whose handler gives the
\* results alog (authenticate) and plog (process)
RECURSIVE RepliesInOrder(_, _, _, _)
RepliesInOrder(recv, auth, alog, plog) ==
    IF recv = <<>> THEN <<>>
    ELSE LET s == Head(recv)
         IN  IF IsExecArm(s, auth) /\ plog # <<>>
             THEN <<Packet("ResponseValue", s.id, Head(plog).res.text)>>
                    \o RepliesInOrder(Tail(recv), auth, alog, Tail(plog))
             ELSE IF IsAuthArm(s, auth) /\ alog # <<>>
             THEN <<Packet("ResponseValue", AuthReplyId(s, Head(alog).ok), <<>>)>>
                    \o RepliesInOrder(Tail(recv), Head(alog).ok, Tail(alog), plog)
             ELSE RepliesInOrder(Tail(recv), auth, alog, plog)

\* everything the peer of session k wrote has arrived and gone through decode
AllRead(k) == c2s[k] = <<>> /\ sBuf[k] = <<>> /\ ~sReadable[k]

\* every frame the peer of session k wrote is one an Encoder produces
WellFormed(k) == \A i \in DOMAIN peerFrames[k] : peerFrames[k][i] \in RequestFrames

\* C12: per-connection ordering.  For the well-formed frames a peer wrote on a
\* connection, in whatever pieces the bytes arrive, and as long as the handler
\* returns no error: the session does not fail, the frames it has taken are the first of
\* those the peer wrote, in that order, the replies it has sent are the replies
\* to those frames in that order, and once every byte has been read it has
\* taken every frame.
C12_PerConnectionOrdering ==
    \A k \in Conns :
        (sStatus[k] # "none" /\ NoHandlerError(k) /\ WellFormed(k))
            => /\ sStatus[k] # "panic"
               /\ IsPrefix(sRecv[k], peerFrames[k])
               /\ sSent[k] = RepliesInOrder(sRecv[k], FALSE, authLog[k], processLog[k])
               /\ (sStatus[k] = "run" /\ AllRead(k)) => sRecv[k] = peerFrames[k]

\* C14: the authentication state of a session.  A session that was not
\* accepted yet is not authenticated, and it starts so; in every step,
\* authenticated changes from false to true only when the session receives an
\* Auth frame and authenticate, called with its body and id, returns true; and
\* it never changes from true to false.
C14_AuthenticatedIsMonotonic ==
    /\ [](\A k \in Conns : sStatus[k] = "none" => ~sAuth[k])
    /\ [][\A k \in Conns :
            /\ (sStatus[k] = "none" /\ sStatus'[k] = "run") => ~sAuth'[k]
            /\ (~sAuth[k] /\ sAuth'[k])
                  => /\ Receives(k, "Auth")
                     /\ OneMore(authLog'[k], authLog[k])
                     /\ authLog'[k][Len(authLog'[k])] =
                           [password |-> LastRecv(sRecv', k).body,
                            pid |-> LastRecv(sRecv', k).id, ok |-> TRUE]
            /\ sAuth[k] => sAuth'[k]]_vars

\* an authenticated session has received a second Auth frame: authenticate
\* was not called again and the session is still authenticated
C14_Witness ==
    \E k \in Conns :
        /\ sAuth[k]
        /\ Len(sRecv[k]) = 2
        /\ sRecv[k][1].ptype = "Auth" /\ sRecv[k][2].ptype = "Auth"
        /\ Len(authLog[k]) = 1

\* C17: an isolated decode error.  In the step in which a session decodes a
\* read buffer that holds one whole malformed frame (undefined type code, or
\* length out of bounds) and nothing else, the session sends nothing, keeps
\* its authentication state, calls no handler, and goes on running with the
\* frame removed from the buffer.
C17_DecodeErrorTolerated ==
    [][\A k \in Conns :
          (/\ sStatus[k] = "run" /\ sReadable[k]
           /\ sBuf[k] \in {WireBytes(f) : f \in MalformedFrames}
           /\ (sBuf'[k] # sBuf[k] \/ sStatus'[k] # sStatus[k]))
              => /\ sStatus'[k] = "run"
                 /\ sBuf'[k] = <<>>
                 /\ sSent'[k] = sSent[k]
                 /\ sAuth'[k] = sAuth[k]
                 /\ authLog'[k] = authLog[k] /\ processLog'[k] = processLog[k]]_vars

\* the session of the first connection and its peer, on their own
NextSession ==
    \/ ClientPeerConnect
    \/ Accept(1) \/ SessionFill(1) \/ SessionNext(1)
    \/ ClientPeerWrite(1) \/ ClientPeerClose(1)

\* the task of a session that can make a step is polled by the runtime
SpecSessionFair == InitServerSys /\ [][NextSession]_vars /\ WF_vars(SessionNext(1))

\* the peer of session k has closed and the session has taken every byte the
\* peer wrote: its next read finds the end of the stream
AtEndOfStream(k) ==
    sStatus[k] = "run" /\ ~cliOpen[k] /\ c2s[k] = <<>> /\ sBuf[k] = <<>>

\* C20: end of stream.  A running session whose peer closed the stream, once
\* it has taken what the peer wrote, eventually returns from start normally,
\* whether it is authenticated or not and whatever frames it received.
C20_EndOfStreamReturns ==
    \A k \in Conns : AtEndOfStream(k) ~> (sStatus[k] = "done")

\* an authenticated session that received two frames has returned normally
C20_Witness ==
    \E k \in Conns :
        /\ sStatus[k] = "done"
        /\ sAuth[k]
        /\ Len(sRecv[k]) = 2
        /\ ~cliOpen[k]

\* everything that belongs to session k and its connection
SessionState(k) ==
    <<sStatus[k], sAuth[k], sBuf[k], sState[k], sReadable[k], sErrored[k], sRecv[k],
      sSent[k], authLog[k], processLog[k], c2s[k], s2c[k], cliOpen[k], srvOpen[k]>>

\* C13: session isolation.  In the step in which the task of one session ends,
\* by a panic (a handler error, a frame the decoder cannot take) or by the end
\* of the stream, no other session and no other connection changes: the other
\* sessions keep their state and go on, and the connections waiting to be
\* accepted are still waiting.
C13_SessionIsolation ==
    [][\A k \in Conns :
          (sStatus[k] = "run" /\ sStatus'[k] \in {"panic", "done"})
              => /\ \A j \in Conns \ {k} : SessionState(j)' = SessionState(j)
                 /\ nConns' = nConns]_vars

\* the first session has panicked; the second runs, has taken a frame and
\* answered it
C13_Witness ==
    /\ sStatus[1] = "panic"
    /\ sStatus[2] = "run"
    /\ Len(sRecv[2]) = 1 /\ Len(sSent[2]) = 1

-----------------------------------------------------------------------------
(* SpecE2E: a Connection of client.rs against the server of server.rs       *)

\* Builder::connect never returns Ok against this server (C2), so the calls
\* that need a Connection are left out
NextE2E ==
    \/ BuilderConnect \/ ConnectAttempt \/ ConnectExhausted \/ ConnectReturn
    \/ ClientFill \/ LoginNext \/ LoginReturn
    \/ ServerNext

SpecE2E == InitClientSys /\ [][NextE2E]_vars

\* C2: successful handshake.  When the handler of the session on the client's
\* connection accepted the client's Auth packet: it was called with the id the
\* client drew, the session is authenticated and replied ResponseValue with
\* that id and an empty body, and once the client has read the reply login has
\* returned Ok and authenticated is true.
C2_SuccessfulHandshake ==
    \A k \in Conns :
        (stream = k /\ authLog[k] # <<>> /\ authLog[k][1].ok)
            => /\ authLog[k][1].pid = aid
               /\ sAuth[k]
               /\ sSent[k][1] = Packet("ResponseValue", aid, <<>>)
               /\ cRecv # <<>> =>
                     /\ cPc \in {"login_ret", "idle"}
                     /\ cRet.tag = "Ok"
                     /\ authenticated

\* C3: rejected handshake.  When the handler rejected the client's Auth
\* packet: the session is not authenticated and replied ResponseValue with id
\* -1 and an empty body, and once the client has read the reply login has
\* returned the authentication failure and authenticated is false.
C3_RejectedHandshake ==
    \A k \in Conns :
        (stream = k /\ authLog[k] # <<>> /\ ~authLog[k][1].ok)
            => /\ ~sAuth[k]
               /\ sSent[k][1] = Packet("ResponseValue", -1, <<>>)
               /\ cRecv # <<>> =>
                     /\ cPc \in {"login_ret", "dropped"}
                     /\ cRet.err = "IncorrectPassword"
                     /\ ~authenticated

====
